---------------------------- MODULE Spec2Model ----------------------------
(***************************************************************************)
(* The stream-health and recovery engine of LivePlayer (src/src/           *)
(* LivePlayer.js) as a state machine.                                      *)
(*                                                                         *)
(* JavaScript runs one callback at a time, so every action below is one    *)
(* callback run to completion (or one run of an async function between two *)
(* awaits).  The two decoder libraries, the video element, the timers and  *)
(* fetch() are the environment: they deliver events and responses in any   *)
(* order.  A decoder delivers events only while it is loaded and not       *)
(* stopped (flv.js after load() and before unload()/destroy(); hls.js      *)
(* after loadSource() and before stopLoad()/destroy()).                    *)
(*                                                                         *)
(* Strings whose content the code inspects are sequences: URLs, stream     *)
(* line names and reasons are sequences of tokens chosen so that every     *)
(* suffix the code tests (".flv", ".m3u8", "-recovery") is one token;      *)
(* playlist texts are sequences of one-character strings.                  *)
(***************************************************************************)
EXTENDS Integers, Sequences, FiniteSets, TLC

(***************************************************************************)
(* Bounds of the model (not program constants).                            *)
(***************************************************************************)
\* Reconnect timers pending at once (the code never cancels one).
MaxTimers == 1
\* investigateHlsFailure() runs suspended at once.
MaxInvestigations == 1
\* Offline-poller ticks with a fetch in flight at once.
MaxTicks == 1
\* Recovery-triggered setups counted in an unattended run (RecoverySpec).
MaxCountedSetups == 3
\* investigateHlsFailure() runs suspended at once in LockSpec.
MaxLockInvestigations == 2
\* Segment lines of a playlist given to the normalizer (NormalizeSpec).
MaxSegments == 2
\* Characters of a free text given to the normalizer (NormalizeSpec).
MaxTextLen == 5

(***************************************************************************)
(* Program constants.                                                      *)
(***************************************************************************)
maxRecoveryAttempts == 3
MAX_CHECKS == 3

(***************************************************************************)
(* Values.                                                                 *)
(***************************************************************************)
\* null (and '') for a URL: the code only tests URLs for truthiness.
Null == <<>>

\* A nullable JavaScript string: null, or a text (possibly empty).
NullText == [null |-> TRUE, text |-> <<>>]
Str(t) == [null |-> FALSE, text |-> t]

\* JavaScript truthiness of a nullable string.
Truthy(c) == ~c.null /\ c.text # <<>>

\* String.prototype.endsWith on token sequences.
EndsWith(str, suffix) == Len(str) > 0 /\ str[Len(str)] = suffix

Max(a, b) == IF a >= b THEN a ELSE b

\* The sequence q without its k-th element.
RemoveAt(q, k) == SubSeq(q, 1, k - 1) \o SubSeq(q, k + 1, Len(q))

(***************************************************************************)
(* Configuration: options.streamUrls after parseStreamUrls, and the        *)
(* browser.                                                                *)
(***************************************************************************)
LineFlvWithFallback ==
  [name |-> <<"Line", "A">>, url |-> <<"a", ".flv">>, fallback |-> <<"a", ".m3u8">>]
LineHls ==
  [name |-> <<"Line", "B">>, url |-> <<"b", ".m3u8">>, fallback |-> Null]
LineFlvOnly ==
  [name |-> <<"Line", "C">>, url |-> <<"c", ".flv">>, fallback |-> Null]
LineHlsSecond ==
  [name |-> <<"Line", "D">>, url |-> <<"d", ".m3u8">>, fallback |-> Null]
LineUnsupported ==
  [name |-> <<"Line", "E">>, url |-> <<"e", ".mp4">>, fallback |-> Null]

\* The installations the component is modelled in: what the browser supports
\* (flvjs.isSupported(), video.canPlayType('application/vnd.apple.mpegurl'),
\* Hls.isSupported()) and the stream lines configured.
Browsers ==
  { [flv |-> TRUE,  nativeHls |-> FALSE, hlsJs |-> TRUE,
     lines |-> <<LineFlvWithFallback, LineHls>>],
    [flv |-> FALSE, nativeHls |-> FALSE, hlsJs |-> TRUE,
     lines |-> <<LineFlvWithFallback, LineFlvOnly>>],
    [flv |-> FALSE, nativeHls |-> TRUE,  hlsJs |-> FALSE,
     lines |-> <<LineFlvWithFallback, LineHls>>],
    [flv |-> TRUE,  nativeHls |-> FALSE, hlsJs |-> TRUE,
     lines |-> <<LineHls, LineHlsSecond>>],
    [flv |-> FALSE, nativeHls |-> TRUE,  hlsJs |-> FALSE,
     lines |-> <<LineHls, LineUnsupported>>],
    [flv |-> TRUE,  nativeHls |-> FALSE, hlsJs |-> TRUE,
     lines |-> <<>>] }

(***************************************************************************)
(* Playlist texts and normalizeM3u8Content.                                *)
(***************************************************************************)
LineTerminators == {"\n", "\r"}

PlaylistA1 == <<"1", ".", "t", "s", "?", "a", "\n">>
PlaylistA2 == <<"1", ".", "t", "s", "?", "b", "\n">>
PlaylistB  == <<"2", ".", "t", "s", "\n">>
Playlists == {PlaylistA1, PlaylistA2, PlaylistB}

\* Whether the regex /\.ts\?/ matches t at position p.
MatchAt(t, p) ==
  /\ p + 3 <= Len(t)
  /\ t[p] = "." /\ t[p + 1] = "t" /\ t[p + 2] = "s" /\ t[p + 3] = "?"

\* LineEnd for a dot that matches line terminators too (/.*$/s): the end of
\* the text.
LineEnd_dotAll(t, p) == Len(t) + 1

\* Where /.*$/m started at p ends: the first line terminator at or after p,
\* or one past the end of the text.
RECURSIVE LineEnd(_, _)
LineEnd(t, p) ==
  IF p > Len(t) \/ t[p] \in LineTerminators THEN p ELSE LineEnd(t, p + 1)

RECURSIVE StripQueries(_, _)

\* StripQueries without the g flag: the first match alone is replaced.
StripQueries_firstMatchOnly(t, p) ==
  IF p > Len(t) THEN <<>>
  ELSE IF MatchAt(t, p)
       THEN <<".", "t", "s">> \o SubSeq(t, LineEnd(t, p + 4), Len(t))
       ELSE <<t[p]>> \o StripQueries(t, p + 1)

\* t.replace(/\.ts\?.*$/gm, '.ts') from position p on.
StripQueries(t, p) ==
  IF p > Len(t) THEN <<>>
  ELSE IF MatchAt(t, p)
       THEN <<".", "t", "s">> \o StripQueries(t, LineEnd(t, p + 4))
       ELSE <<t[p]>> \o StripQueries(t, p + 1)

\* normalizeM3u8Content returning the content as it is.
normalizeM3u8Content_raw(m3u8Content) ==
  IF ~Truthy(m3u8Content) THEN NullText ELSE m3u8Content

normalizeM3u8Content(m3u8Content) ==
  IF ~Truthy(m3u8Content) THEN NullText
  ELSE Str(StripQueries(m3u8Content.text, 1))

\* The media playlists the normalizer is examined on.  A segment line is the
\* URI of a segment and a line feed; the URI is a path (a stem and a file
\* extension) and a query string, possibly none.  The last query string
\* holds the pattern of the regex once more.
SegmentStems == {<<"1">>, <<"2">>}
SegmentExtensions == {<<".", "t", "s">>, <<".", "m", "4", "s">>}
SegmentQueries ==
  {<<>>, <<"?", "a">>, <<"?", "b">>, <<"?", ".", "t", "s", "?">>}
SegmentLines ==
  [stem : SegmentStems, ext : SegmentExtensions, query : SegmentQueries]
SegmentPlaylists == UNION {[1..n -> SegmentLines] : n \in 1..MaxSegments}

SegmentPath(line) == line.stem \o line.ext

\* The text of a playlist of segment lines.
RECURSIVE PlaylistText(_)
PlaylistText(P) ==
  IF P = <<>> THEN <<>>
  ELSE SegmentPath(Head(P)) \o Head(P).query \o <<"\n">> \o PlaylistText(Tail(P))

\* Free texts over the characters the regex distinguishes.
TextCharacters == {".", "t", "s", "?", "\n", "\r"}
FreeTexts == UNION {[1..n -> TextCharacters] : n \in 0..MaxTextLen}

\* What a fetch() of a playlist yields: a failure (a thrown network error or
\* a response that is not ok), or a body.
FetchResults ==
  {[ok |-> FALSE, body |-> <<>>]} \cup {[ok |-> TRUE, body |-> p] : p \in Playlists}

\* Master playlists as sequences of lines.
MasterPlaylists ==
  { <<"#EXTM3U", "#EXT-X-STREAM-INF", "media.m3u8">>, <<"#EXTM3U">> }

\* masterContent.split('\n').find(line => line.trim() && !line.startsWith('#')):
\* lines are "" or start with "#" or are a URI.
IsMediaLine(line) == line # "" /\ line \notin {"#EXTM3U", "#EXT-X-STREAM-INF"}
HasMediaPlaylistUri(master) == \E n \in DOMAIN master : IsMediaLine(master[n])

(***************************************************************************)
(* State.                                                                  *)
(***************************************************************************)
VARIABLES
  browser,               \* the capabilities of the browser (fixed)
  flvPlayer,             \* "null" | "loaded" | "unloaded"
  hlsPlayer,             \* "null" | "loading" | "stopped"
  nativeSrc,             \* video.src holds an HLS URL (native playback)
  currentPlayerType,     \* "null" | "flv" | "hls"
  currentUrl,
  userSelectedUrl,
  isLoading,
  playPending,           \* a video.play() promise has not settled yet
  recoveryAttempts,
  peakAttempts,          \* the largest value recoveryAttempts held during the last callback
  isObservingStall,
  lastKnownStaleContent,
  offlinePoller,         \* the interval handle is set
  liveIntervals,         \* poller intervals the browser still runs
  reconnectTimers,       \* pending setTimeout(..., 1500) of handleStreamError
  destroyed,
  investigations,        \* suspended runs of investigateHlsFailure
  ticks,                 \* poller ticks awaiting a fetch
  lastOp,                \* the callback that ran last, and the branch it took
  recoveryRun,           \* the unattended run since start(), when one is followed
  probe                  \* the contents given to normalizeM3u8Content, and its results

\* this.streamUrlList.
streamUrlList == browser.lines

PrimaryUrls == {streamUrlList[n].url : n \in DOMAIN streamUrlList}
FallbackUrls == {streamUrlList[n].fallback : n \in DOMAIN streamUrlList} \ {Null}

sessionVars ==
  << flvPlayer, hlsPlayer, nativeSrc, currentPlayerType, currentUrl, userSelectedUrl,
     isLoading, playPending, recoveryAttempts, isObservingStall,
     lastKnownStaleContent, offlinePoller, liveIntervals, reconnectTimers >>

vars ==
  << browser, flvPlayer, hlsPlayer, nativeSrc, currentPlayerType, currentUrl,
     userSelectedUrl, isLoading, playPending, recoveryAttempts, peakAttempts,
     isObservingStall, lastKnownStaleContent, offlinePoller, liveIntervals,
     reconnectTimers, destroyed, investigations, ticks, lastOp, recoveryRun,
     probe >>

\* The component.
componentVars ==
  << browser, flvPlayer, hlsPlayer, nativeSrc, currentPlayerType, currentUrl,
     userSelectedUrl, isLoading, playPending, recoveryAttempts, peakAttempts,
     isObservingStall, lastKnownStaleContent, offlinePoller, liveIntervals,
     reconnectTimers, destroyed, investigations, ticks, lastOp, recoveryRun >>

\* The fields of the component as a record, at the start of a callback.
St ==
  [ flvPlayer |-> flvPlayer, hlsPlayer |-> hlsPlayer, nativeSrc |-> nativeSrc,
    currentPlayerType |-> currentPlayerType, currentUrl |-> currentUrl,
    userSelectedUrl |-> userSelectedUrl, isLoading |-> isLoading,
    playPending |-> playPending, recoveryAttempts |-> recoveryAttempts,
    peakAttempts |-> recoveryAttempts, isObservingStall |-> isObservingStall,
    lastKnownStaleContent |-> lastKnownStaleContent, offlinePoller |-> offlinePoller,
    liveIntervals |-> liveIntervals, reconnectTimers |-> reconnectTimers,
    destroyed |-> destroyed, recoveryRun |-> recoveryRun ]

\* The fields of the component at the end of a callback.
Apply(s) ==
  /\ flvPlayer' = s.flvPlayer
  /\ hlsPlayer' = s.hlsPlayer
  /\ nativeSrc' = s.nativeSrc
  /\ currentPlayerType' = s.currentPlayerType
  /\ currentUrl' = s.currentUrl
  /\ userSelectedUrl' = s.userSelectedUrl
  /\ isLoading' = s.isLoading
  /\ playPending' = s.playPending
  /\ recoveryAttempts' = s.recoveryAttempts
  /\ peakAttempts' = s.peakAttempts
  /\ isObservingStall' = s.isObservingStall
  /\ lastKnownStaleContent' = s.lastKnownStaleContent
  /\ offlinePoller' = s.offlinePoller
  /\ liveIntervals' = s.liveIntervals
  /\ reconnectTimers' = s.reconnectTimers
  /\ destroyed' = s.destroyed
  /\ recoveryRun' = s.recoveryRun
  /\ browser' = browser
  /\ probe' = probe

\* The history of an unattended run (a run of start() and of no other user
\* action): phase is "counting" from the construction until offline is
\* declared for the first time and "offline" from then on, setups counts the
\* recovery-triggered setups of the "counting" phase, and resumed tells
\* whether the code reset recoveryAttempts on resumed playback during it.
\* "off": no run is followed, and the record never changes.
NoRun == [phase |-> "off", setups |-> 0, resumed |-> FALSE]
UnattendedRun == [phase |-> "counting", setups |-> 0, resumed |-> FALSE]

\* The fields after the constructor.
Constructed ==
  /\ browser \in Browsers
  /\ flvPlayer = "null"
  /\ hlsPlayer = "null"
  /\ nativeSrc = FALSE
  /\ currentPlayerType = "null"
  /\ currentUrl = Null
  /\ userSelectedUrl = Null
  /\ isLoading = TRUE
  /\ playPending = FALSE
  /\ recoveryAttempts = 0
  /\ peakAttempts = 0
  /\ isObservingStall = FALSE
  /\ lastKnownStaleContent = NullText
  /\ offlinePoller = FALSE
  /\ liveIntervals = 0
  /\ reconnectTimers = 0
  /\ destroyed = FALSE
  /\ investigations = <<>>
  /\ ticks = <<>>
  /\ lastOp = "constructor"

\* No content is given to the normalizer apart from the component's calls.
NoProbe ==
  [stage |-> "off", P |-> <<>>, Q |-> <<>>, p |-> NullText, q |-> NullText,
   np |-> NullText, nq |-> NullText, nnp |-> NullText, nnq |-> NullText]

Init == Constructed /\ recoveryRun = NoRun /\ probe = NoProbe

\* The history of a followed run at a recovery-triggered setup, at a
\* declaration of offline, and at a reset of the counter on resumed playback.
CountSetup(s) ==
  IF s.recoveryRun.phase = "counting"
  THEN [s EXCEPT !.recoveryRun.setups = @ + 1] ELSE s
OfflineDeclared(s) ==
  IF s.recoveryRun.phase = "counting"
  THEN [s EXCEPT !.recoveryRun.phase = "offline"] ELSE s
PlaybackResumed(s) ==
  IF s.recoveryRun.phase = "counting"
  THEN [s EXCEPT !.recoveryRun.resumed = TRUE] ELSE s

(***************************************************************************)
(* The methods of LivePlayer, as functions from the state at their call to *)
(* the state at their return.                                              *)
(***************************************************************************)
\* clearOfflineState forgetting clearInterval: the field alone is reset.
clearOfflineState_leavesInterval(s) ==
  IF s.offlinePoller THEN [s EXCEPT !.offlinePoller = FALSE] ELSE s

clearOfflineState(s) ==
  IF s.offlinePoller
  THEN [s EXCEPT !.offlinePoller = FALSE, !.liveIntervals = @ - 1]
  ELSE s

\* The part of handleOfflineState that runs at the call: the interval is
\* (re)started.  Its callback is PollTick and the actions after it.
handleOfflineState(s) ==
  LET cleared == IF s.offlinePoller THEN [s EXCEPT !.liveIntervals = @ - 1] ELSE s
  IN  OfflineDeclared([cleared EXCEPT !.offlinePoller = TRUE, !.liveIntervals = @ + 1])

\* stallObserverTimer is never set by the code: only the flag changes.
resetStallObservation(s) == [s EXCEPT !.isObservingStall = FALSE]

\* An assignment to recoveryAttempts.
SetAttempts(s, n) ==
  [s EXCEPT !.recoveryAttempts = n, !.peakAttempts = Max(@, n)]

\* declareStreamOffline without its step 3, the reset of the counter.
declareStreamOffline_keepsCounter(s) ==
  LET stopped == [s EXCEPT !.flvPlayer = IF @ = "null" THEN @ ELSE "unloaded",
                           !.hlsPlayer = IF @ = "null" THEN @ ELSE "stopped",
                           !.nativeSrc = IF s.hlsPlayer = "null" THEN @ ELSE FALSE]
  IN  handleOfflineState(stopped)

declareStreamOffline(s) ==
  LET stopped == [s EXCEPT !.flvPlayer = IF @ = "null" THEN @ ELSE "unloaded",
                           !.hlsPlayer = IF @ = "null" THEN @ ELSE "stopped",
                           !.nativeSrc = IF s.hlsPlayer = "null" THEN @ ELSE FALSE]
  IN  handleOfflineState(SetAttempts(stopped, 0))

\* The reason of the reconnect that handleStreamError schedules.
RecoveryReason(reason) == reason \o <<"-recovery">>

\* The setTimeout of handleStreamError.  Every pending timer runs
\* setupPlayer(this.currentUrl, RecoveryReason(reason)) with the currentUrl of
\* the moment it fires, and setupPlayer reads only the end of the reason, so
\* the pending timers are kept as a count.
ScheduleReconnect(s) == [s EXCEPT !.reconnectTimers = @ + 1]

\* handleStreamError without the increment of the counter.
handleStreamError_uncounted(s, reason) ==
  LET counted == resetStallObservation(s)
  IN  IF counted.recoveryAttempts >= maxRecoveryAttempts
      THEN declareStreamOffline(counted)
      ELSE ScheduleReconnect(counted)

\* handleStreamError with the threshold test off by one (> for >=).
handleStreamError_lateThreshold(s, reason) ==
  LET counted == resetStallObservation(SetAttempts(s, s.recoveryAttempts + 1))
  IN  IF counted.recoveryAttempts > maxRecoveryAttempts
      THEN declareStreamOffline(counted)
      ELSE ScheduleReconnect(counted)

handleStreamError(s, reason) ==
  LET counted == resetStallObservation(SetAttempts(s, s.recoveryAttempts + 1))
  IN  IF counted.recoveryAttempts >= maxRecoveryAttempts
      THEN declareStreamOffline(counted)
      ELSE ScheduleReconnect(counted)

\* video.play() and the promise it returns.
commonPlayLogic(s) == [s EXCEPT !.playPending = TRUE]

setupFlvPlayer(s, url, reason) ==
  IF ~browser.flv THEN s
  ELSE commonPlayLogic([s EXCEPT !.flvPlayer = "loaded"])

setupHlsPlayer(s, url, reason) ==
  IF browser.nativeHls THEN commonPlayLogic([s EXCEPT !.nativeSrc = TRUE])
  ELSE IF browser.hlsJs THEN commonPlayLogic([s EXCEPT !.hlsPlayer = "loading"])
  ELSE s

\* this.streamUrlList.find(line => line.url === targetUrl): the index, or 0.
FindLine(targetUrl) ==
  IF \E n \in DOMAIN streamUrlList : streamUrlList[n].url = targetUrl
  THEN CHOOSE n \in DOMAIN streamUrlList :
         /\ streamUrlList[n].url = targetUrl
         /\ \A m \in 1..(n - 1) : streamUrlList[m].url # targetUrl
  ELSE 0

\* setupPlayer without the reset of the stale-content cache.
setupPlayer_keepsStaleContent(s, targetUrl, reason) ==
  LET selected == IF ~EndsWith(reason, "-recovery")
                  THEN [s EXCEPT !.userSelectedUrl = targetUrl]
                  ELSE s
      online == clearOfflineState(selected)
      lineInfo == FindLine(targetUrl)
      needsFallback == EndsWith(targetUrl, ".flv") /\ ~browser.flv
      hasFallback == lineInfo # 0 /\ streamUrlList[lineInfo].fallback # Null
      urlToPlay == IF needsFallback THEN streamUrlList[lineInfo].fallback ELSE targetUrl
      prepared == [online EXCEPT !.isLoading = TRUE, !.flvPlayer = "null",
                                 !.hlsPlayer = "null", !.nativeSrc = FALSE,
                                 !.currentUrl = urlToPlay]
  IN  IF targetUrl = Null THEN selected
      ELSE IF needsFallback /\ ~hasFallback THEN online
      ELSE IF EndsWith(urlToPlay, ".m3u8")
           THEN setupHlsPlayer([prepared EXCEPT !.currentPlayerType = "hls"], urlToPlay, reason)
      ELSE IF EndsWith(urlToPlay, ".flv")
           THEN setupFlvPlayer([prepared EXCEPT !.currentPlayerType = "flv"], urlToPlay, reason)
      ELSE [prepared EXCEPT !.isLoading = FALSE]

\* setupPlayer without the teardown of a previous flv.js instance.
setupPlayer_keepsFlvPlayer(s, targetUrl, reason) ==
  LET selected == IF ~EndsWith(reason, "-recovery")
                  THEN [s EXCEPT !.userSelectedUrl = targetUrl]
                  ELSE s
      fresh == [selected EXCEPT !.lastKnownStaleContent = NullText]
      online == clearOfflineState(fresh)
      lineInfo == FindLine(targetUrl)
      needsFallback == EndsWith(targetUrl, ".flv") /\ ~browser.flv
      hasFallback == lineInfo # 0 /\ streamUrlList[lineInfo].fallback # Null
      urlToPlay == IF needsFallback THEN streamUrlList[lineInfo].fallback ELSE targetUrl
      prepared == [online EXCEPT !.isLoading = TRUE,
                                 !.hlsPlayer = "null", !.nativeSrc = FALSE,
                                 !.currentUrl = urlToPlay]
  IN  IF targetUrl = Null THEN fresh
      ELSE IF needsFallback /\ ~hasFallback THEN online
      ELSE IF EndsWith(urlToPlay, ".m3u8")
           THEN setupHlsPlayer([prepared EXCEPT !.currentPlayerType = "hls"], urlToPlay, reason)
      ELSE IF EndsWith(urlToPlay, ".flv")
           THEN setupFlvPlayer([prepared EXCEPT !.currentPlayerType = "flv"], urlToPlay, reason)
      ELSE [prepared EXCEPT !.isLoading = FALSE]

setupPlayer(s, targetUrl, reason) ==
  LET selected == IF ~EndsWith(reason, "-recovery")
                  THEN [s EXCEPT !.userSelectedUrl = targetUrl]
                  ELSE s
      fresh == [selected EXCEPT !.lastKnownStaleContent = NullText]
      online == clearOfflineState(fresh)
      lineInfo == FindLine(targetUrl)
      needsFallback == EndsWith(targetUrl, ".flv") /\ ~browser.flv
      hasFallback == lineInfo # 0 /\ streamUrlList[lineInfo].fallback # Null
      urlToPlay == IF needsFallback THEN streamUrlList[lineInfo].fallback ELSE targetUrl
      prepared == [online EXCEPT !.isLoading = TRUE, !.flvPlayer = "null",
                                 !.hlsPlayer = "null", !.nativeSrc = FALSE,
                                 !.currentUrl = urlToPlay]
  IN  IF targetUrl = Null THEN fresh
      ELSE IF needsFallback /\ ~hasFallback THEN online
      ELSE IF EndsWith(urlToPlay, ".m3u8")
           THEN setupHlsPlayer([prepared EXCEPT !.currentPlayerType = "hls"], urlToPlay, reason)
      ELSE IF EndsWith(urlToPlay, ".flv")
           THEN setupFlvPlayer([prepared EXCEPT !.currentPlayerType = "flv"], urlToPlay, reason)
      ELSE [prepared EXCEPT !.isLoading = FALSE]

start(s) ==
  IF Len(streamUrlList) > 0
  THEN setupPlayer(SetAttempts(s, 0), streamUrlList[1].url, <<"initial load">>)
  ELSE s

destroy(s) ==
  LET torn == [s EXCEPT !.flvPlayer = "null", !.hlsPlayer = "null"]
      quiet == resetStallObservation(clearOfflineState(torn))
  IN  [SetAttempts(quiet, 0) EXCEPT !.currentPlayerType = "null", !.destroyed = TRUE]

\* refreshClick without the reset of the counter.
refreshClick_keepsCounter(s) == setupPlayer(s, s.currentUrl, <<"refresh">>)

\* The click handler of the refresh button.
refreshClick(s) == setupPlayer(SetAttempts(s, 0), s.currentUrl, <<"refresh">>)

\* Whether switchLine(targetLi) returns without a setup; li.dataset.url is the
\* url of line n.
SwitchLineReturnsEarly(s, n) ==
  LET newUrl == streamUrlList[n].url
  IN  newUrl = Null \/ (newUrl = s.userSelectedUrl /\ ~s.isLoading)

switchLine(s, n) ==
  IF SwitchLineReturnsEarly(s, n) THEN s
  ELSE setupPlayer(SetAttempts(s, 0), streamUrlList[n].url,
                   <<"manual switch to ">> \o streamUrlList[n].name)

\* The listener of the video element's 'playing' event.
onPlaying(s) ==
  IF s.isObservingStall THEN s
  ELSE LET counted == IF s.currentPlayerType = "flv"
                      THEN PlaybackResumed(SetAttempts(s, 0)) ELSE s
       IN  resetStallObservation(counted)

\* The callback of the setTimeout of handleStreamError.
reconnectCallback(s) ==
  CountSetup(setupPlayer([s EXCEPT !.reconnectTimers = @ - 1], s.currentUrl,
                         RecoveryReason(<<"stream-error">>)))

\* The finally of commonPlayLogic's play promise.
playSettled(s) == [s EXCEPT !.isLoading = FALSE, !.playPending = FALSE]

(***************************************************************************)
(* The error listeners of the two decoders.                                *)
(***************************************************************************)
FlvErrorTypes == {"NetworkError", "MediaError"}
HttpStatuses == {404, 500}

\* FlvErrorClass without the test of the error type.
FlvErrorClass_anyType(s, errorType, httpStatus) ==
  IF httpStatus = 404 /\ s.recoveryAttempts = 0 THEN "offline404"
  ELSE "recoverable"

\* The branch the flv.js ERROR listener takes.
FlvErrorClass(s, errorType, httpStatus) ==
  IF errorType # "NetworkError" THEN "ignored"
  ELSE IF httpStatus = 404 /\ s.recoveryAttempts = 0 THEN "offline404"
  ELSE "recoverable"

onFlvError(s, errorType, httpStatus) ==
  LET class == FlvErrorClass(s, errorType, httpStatus)
  IN  IF class = "offline404"
      THEN handleOfflineState([s EXCEPT !.flvPlayer = "unloaded"])
      ELSE IF class = "recoverable"
      THEN handleStreamError(s, <<"flv-", "errorDetail">>)
      ELSE s

HlsErrorDetails ==
  {"manifestLoadError", "bufferStalledError", "levelLoadTimeOut", "bufferNudgeOnStall"}

\* data of an hls.js ERROR event: details, fatal, response.code (500: any
\* other status, or no response); and whether
\* hlsPlayer.levels[hlsPlayer.currentLevel] exists at that moment.  Only a
\* manifest load error carries a 404 here (the listener reads the code of no
\* other error), and only a buffer stall finds the level missing (the listener
\* reads the level after no other error).
HlsErrors ==
  { d \in [details : HlsErrorDetails, fatal : BOOLEAN, code : HttpStatuses,
           levelReady : BOOLEAN] :
      /\ d.code = 404 => d.details = "manifestLoadError"
      /\ ~d.levelReady => d.details = "bufferStalledError" }

\* HlsErrorClass with priorities 3 and 4 exchanged: a buffer stall is
\* investigated before the fatal flag is read.
HlsErrorClass_stallBeforeFatal(s, data) ==
  IF data.details = "manifestLoadError" /\ data.code = 404 /\ s.recoveryAttempts = 0
  THEN "offline404"
  ELSE IF s.isObservingStall THEN "ignoredLock"
  ELSE IF data.details = "bufferStalledError"
       THEN (IF data.levelReady THEN "stall" ELSE "stallNotReady")
  ELSE IF data.fatal THEN "fatal"
  ELSE "minor"

\* HlsErrorClass without the test that this is the first attempt.
HlsErrorClass_any404(s, data) ==
  IF data.details = "manifestLoadError" /\ data.code = 404
  THEN "offline404"
  ELSE IF s.isObservingStall THEN "ignoredLock"
  ELSE IF data.fatal THEN "fatal"
  ELSE IF data.details = "bufferStalledError"
       THEN (IF data.levelReady THEN "stall" ELSE "stallNotReady")
  ELSE "minor"

\* The branch the hls.js ERROR listener takes.
HlsErrorClass(s, data) ==
  IF data.details = "manifestLoadError" /\ data.code = 404 /\ s.recoveryAttempts = 0
  THEN "offline404"
  ELSE IF s.isObservingStall THEN "ignoredLock"
  ELSE IF data.fatal THEN "fatal"
  ELSE IF data.details = "bufferStalledError"
       THEN (IF data.levelReady THEN "stall" ELSE "stallNotReady")
  ELSE "minor"

\* A run of investigateHlsFailure suspended at an await: at the fetch of check
\* i, or at the delay after check i; last is lastFetchedRawContent, and oks
\* counts the checks whose fetch succeeded.
NewInvestigation == [i |-> 1, phase |-> "fetch", last |-> <<>>, oks |-> 0]

\* onHlsError whose investigation, finding the decoder not ready, only
\* releases the lock: the catch block without its call of handleStreamError.
onHlsError_setupFailureUncounted(s, data) ==
  LET class == HlsErrorClass(s, data)
      locked == [s EXCEPT !.isObservingStall = TRUE]
  IN  CASE class = "offline404" -> handleOfflineState([s EXCEPT !.hlsPlayer = "stopped"])
        [] class = "fatal" -> handleStreamError(s, <<"hls-fatal-", data.details>>)
        [] class = "stall" -> locked
        [] class = "stallNotReady" -> resetStallObservation(locked)
        [] OTHER -> s

onHlsError(s, data) ==
  LET class == HlsErrorClass(s, data)
      locked == [s EXCEPT !.isObservingStall = TRUE]
  IN  CASE class = "offline404" -> handleOfflineState([s EXCEPT !.hlsPlayer = "stopped"])
        [] class = "fatal" -> handleStreamError(s, <<"hls-fatal-", data.details>>)
        [] class = "stall" -> locked
        [] class = "stallNotReady" ->
             resetStallObservation(
               handleStreamError(locked, <<"hls-investigation-setup-failed">>))
        [] OTHER -> s

(***************************************************************************)
(* investigateHlsFailure after its first await.                            *)
(***************************************************************************)
\* InvestigationVerdict comparing from the third check on (i > 2 for i > 1).
InvestigationVerdict_comparesFromThird(c, r) ==
  IF /\ r.ok
     /\ c.i > 2
     /\ normalizeM3u8Content(Str(r.body)) # normalizeM3u8Content(Str(c.last))
  THEN "healthy"
  ELSE IF c.i < MAX_CHECKS THEN "continue"
  ELSE "failed"

\* What the response r to the fetch of check c.i leads to.
InvestigationVerdict(c, r) ==
  IF /\ r.ok
     /\ c.i > 1
     /\ normalizeM3u8Content(Str(r.body)) # normalizeM3u8Content(Str(c.last))
  THEN "healthy"
  ELSE IF c.i < MAX_CHECKS THEN "continue"
  ELSE "failed"

\* lastFetchedRawContent after the response r.
LastFetched(c, r) == IF r.ok THEN r.body ELSE c.last

\* How the checks of a run went whose last response is r: every fetch
\* succeeded ("stale"), none did ("unreachable"), or some did ("mixed").
FetchHistory(c, r) ==
  LET oks == c.oks + (IF r.ok THEN 1 ELSE 0)
  IN  IF oks = c.i THEN "stale" ELSE IF oks = 0 THEN "unreachable" ELSE "mixed"

\* Where a run found the playlist updated: at check 2 or 3 with the previous
\* fetch successful, or by a first successful fetch after failed ones (the
\* comparison is then with the initial '').
HealthyAt(c) ==
  IF c.oks = 0 THEN "firstFetched" ELSE IF c.i = 2 THEN "check2" ELSE "check3"

\* investigationFetched caching the normalized content, not the raw one.
investigationFetched_cachesNormalized(s, c, r) ==
  LET verdict == InvestigationVerdict(c, r)
  IN  CASE verdict = "healthy" -> resetStallObservation(PlaybackResumed(SetAttempts(s, 0)))
        [] verdict = "failed" ->
             LET cached == [s EXCEPT !.lastKnownStaleContent =
                                       normalizeM3u8Content(Str(LastFetched(c, r)))]
                 forced == SetAttempts(cached, maxRecoveryAttempts)
             IN  resetStallObservation(handleStreamError(forced, <<"hls-investigation-failed">>))
        [] OTHER -> s

\* investigationFetched without the finally on the healthy return.
investigationFetched_healthyKeepsLock(s, c, r) ==
  LET verdict == InvestigationVerdict(c, r)
  IN  CASE verdict = "healthy" -> PlaybackResumed(SetAttempts(s, 0))
        [] verdict = "failed" ->
             LET cached == [s EXCEPT !.lastKnownStaleContent = Str(LastFetched(c, r))]
                 forced == SetAttempts(cached, maxRecoveryAttempts)
             IN  resetStallObservation(handleStreamError(forced, <<"hls-investigation-failed">>))
        [] OTHER -> s

\* The session after the response r to the fetch of check c.i.
investigationFetched(s, c, r) ==
  LET verdict == InvestigationVerdict(c, r)
  IN  CASE verdict = "healthy" -> resetStallObservation(PlaybackResumed(SetAttempts(s, 0)))
        [] verdict = "failed" ->
             LET cached == [s EXCEPT !.lastKnownStaleContent = Str(LastFetched(c, r))]
                 forced == SetAttempts(cached, maxRecoveryAttempts)
             IN  resetStallObservation(handleStreamError(forced, <<"hls-investigation-failed">>))
        [] OTHER -> s

\* The session when the delay after a check ends: the loop goes on if the lock
\* is still held, and the function returns through its finally if not.
investigationResumed(s) ==
  IF ~s.isObservingStall THEN resetStallObservation(s) ELSE s

(***************************************************************************)
(* The interval callback of handleOfflineState.                            *)
(***************************************************************************)
\* A tick suspended at an await: masterUrl is the userSelectedUrl it read when
\* it began; it waits for the HEAD response ("head"), for the master playlist
\* ("master") or for the media playlist ("media").
NewTick(masterUrl) ==
  [masterUrl |-> masterUrl,
   phase |-> IF EndsWith(masterUrl, ".m3u8") THEN "master" ELSE "head"]

\* The tick up to its first await.
pollTickBegins(s) == IF s.userSelectedUrl = Null THEN clearOfflineState(s) ELSE s

\* A revival found by a tick.
pollRevival(s, masterUrl) ==
  setupPlayer(clearOfflineState(s), masterUrl, <<"offline-poll-success">>)

\* The tick after the response to its HEAD request.
pollHeadFetched(s, masterUrl, ok) == IF ok THEN pollRevival(s, masterUrl) ELSE s

\* Whether the tick finds the fetched media playlist to be the stale one.
StillStale(s, mediaContent) ==
  /\ Truthy(s.lastKnownStaleContent)
  /\ normalizeM3u8Content(Str(mediaContent)) = normalizeM3u8Content(s.lastKnownStaleContent)

\* pollMediaFetched without the test of mediaResponse.ok.
pollMediaFetched_ignoresStatus(s, masterUrl, r) ==
  IF StillStale(s, r.body) THEN s
  ELSE pollRevival([clearOfflineState(s) EXCEPT !.lastKnownStaleContent = NullText],
                   masterUrl)

\* The tick after the response r to its fetch of the media playlist.
pollMediaFetched(s, masterUrl, r) ==
  IF ~r.ok \/ StillStale(s, r.body) THEN s
  ELSE pollRevival([clearOfflineState(s) EXCEPT !.lastKnownStaleContent = NullText],
                   masterUrl)

(***************************************************************************)
(* Actions: one per callback.                                              *)
(***************************************************************************)
\* An active decoder session exists (the video element can report 'playing').
SessionActive(s) == s.flvPlayer = "loaded" \/ s.hlsPlayer = "loading" \/ s.nativeSrc

Start ==
  /\ ~destroyed
  /\ Apply(start(St))
  /\ lastOp' = "start"
  /\ UNCHANGED <<investigations, ticks>>

RefreshClick ==
  /\ ~destroyed
  /\ Apply(refreshClick(St))
  /\ lastOp' = "refresh"
  /\ UNCHANGED <<investigations, ticks>>

\* A click on line n of the line switcher.
SwitchLineWith(n) ==
  /\ ~destroyed
  /\ Apply(switchLine(St, n))
  /\ lastOp' = IF SwitchLineReturnsEarly(St, n) THEN "switchLine_same" ELSE "switchLine"
  /\ UNCHANGED <<investigations, ticks>>

SwitchLineClick == \E n \in DOMAIN streamUrlList : SwitchLineWith(n)

Destroy ==
  /\ ~destroyed
  /\ Apply(destroy(St))
  /\ lastOp' = "destroy"
  /\ UNCHANGED <<investigations, ticks>>

Playing ==
  /\ SessionActive(St)
  /\ Apply(onPlaying(St))
  /\ lastOp' = IF isObservingStall THEN "playing_ignored" ELSE "playing"
  /\ UNCHANGED <<investigations, ticks>>

PlaySettled ==
  /\ playPending
  /\ Apply(playSettled(St))
  /\ lastOp' = "playSettled"
  /\ UNCHANGED <<investigations, ticks>>

\* The flv.js ERROR listener on the event (errorType, errorInfo.code).
FlvErrorWith(errorType, httpStatus) ==
  LET after == onFlvError(St, errorType, httpStatus)
  IN  /\ flvPlayer = "loaded"
      /\ after.reconnectTimers <= MaxTimers
      /\ Apply(after)
      /\ lastOp' = "flvError_" \o FlvErrorClass(St, errorType, httpStatus)
      /\ UNCHANGED <<investigations, ticks>>

FlvError ==
  \E errorType \in FlvErrorTypes, httpStatus \in HttpStatuses :
    FlvErrorWith(errorType, httpStatus)

\* The hls.js ERROR listener on the event data, with at most limit runs of
\* investigateHlsFailure suspended at once.
HlsErrorWithin(data, limit) ==
  LET class == HlsErrorClass(St, data)
      after == onHlsError(St, data)
  IN  /\ hlsPlayer = "loading"
      /\ after.reconnectTimers <= MaxTimers
      /\ class = "stall" => Len(investigations) < limit
      /\ Apply(after)
      /\ investigations' = IF class = "stall"
                           THEN Append(investigations, NewInvestigation)
                           ELSE investigations
      /\ lastOp' = "hlsError_" \o class
      /\ UNCHANGED ticks

HlsErrorWith(data) == HlsErrorWithin(data, MaxInvestigations)

HlsError == \E data \in HlsErrors : HlsErrorWith(data)

ReconnectTimer ==
  /\ reconnectTimers > 0
  /\ recoveryRun.phase = "counting" => recoveryRun.setups < MaxCountedSetups
  /\ Apply(reconnectCallback(St))
  /\ lastOp' = "reconnect"
  /\ UNCHANGED <<investigations, ticks>>

\* Investigation k receives the response r to its fetch.
InvestigationFetchedWith(k, r) ==
  LET c == investigations[k]
      verdict == InvestigationVerdict(c, r)
  IN  /\ c.phase = "fetch"
      /\ Apply(investigationFetched(St, c, r))
      /\ investigations' =
           IF verdict = "continue"
           THEN [investigations EXCEPT ![k] = [c EXCEPT !.phase = "delay",
                                                        !.last = LastFetched(c, r),
                                                        !.oks = IF r.ok THEN @ + 1 ELSE @]]
           ELSE RemoveAt(investigations, k)
      /\ lastOp' = IF verdict = "failed"
                   THEN "investigation_failed_" \o FetchHistory(c, r)
                   ELSE IF verdict = "healthy"
                   THEN "investigation_healthy_" \o HealthyAt(c)
                   ELSE "investigation_" \o verdict
      /\ UNCHANGED ticks

InvestigationFetched ==
  \E k \in DOMAIN investigations, r \in FetchResults : InvestigationFetchedWith(k, r)

InvestigationResumed ==
  \E k \in DOMAIN investigations :
    LET c == investigations[k]
    IN  /\ c.phase = "delay"
        /\ Apply(investigationResumed(St))
        /\ investigations' =
             IF isObservingStall
             THEN [investigations EXCEPT ![k] = [c EXCEPT !.phase = "fetch", !.i = @ + 1]]
             ELSE RemoveAt(investigations, k)
        /\ lastOp' = IF isObservingStall THEN "investigation_next"
                     ELSE "investigation_cancelled"
        /\ UNCHANGED ticks

PollTick ==
  /\ liveIntervals > 0
  /\ userSelectedUrl # Null => Len(ticks) < MaxTicks
  /\ Apply(pollTickBegins(St))
  /\ ticks' = IF userSelectedUrl = Null THEN ticks
              ELSE Append(ticks, NewTick(userSelectedUrl))
  /\ lastOp' = IF userSelectedUrl = Null THEN "poll_noUrl" ELSE "poll_tick"
  /\ UNCHANGED investigations

\* Tick k receives the response to its HEAD request (ok: response.ok; a
\* thrown network error counts as not ok).
PollHeadFetchedWith(k, ok) ==
  /\ ticks[k].phase = "head"
  /\ Apply(pollHeadFetched(St, ticks[k].masterUrl, ok))
  /\ ticks' = RemoveAt(ticks, k)
  /\ lastOp' = IF ok THEN "poll_revival" ELSE "poll_offline"
  /\ UNCHANGED investigations

PollHeadFetched ==
  \E k \in DOMAIN ticks, ok \in BOOLEAN : PollHeadFetchedWith(k, ok)

\* The response to the fetch of the master playlist: a failure, or a body.
PollMasterFetchedWith(k, ok, master) ==
  LET goesOn == ok /\ HasMediaPlaylistUri(master)
  IN  /\ ticks[k].phase = "master"
      /\ Apply(St)
      /\ ticks' = IF goesOn THEN [ticks EXCEPT ![k].phase = "media"]
                  ELSE RemoveAt(ticks, k)
      /\ lastOp' = IF goesOn THEN "poll_master" ELSE "poll_offline"
      /\ UNCHANGED investigations

PollMasterFetched ==
  \E k \in DOMAIN ticks, ok \in BOOLEAN, master \in MasterPlaylists :
    PollMasterFetchedWith(k, ok, master)

\* Tick k receives the response r to its fetch of the media playlist.
PollMediaFetchedWith(k, r) ==
  /\ ticks[k].phase = "media"
  /\ Apply(pollMediaFetched(St, ticks[k].masterUrl, r))
  /\ ticks' = RemoveAt(ticks, k)
  /\ lastOp' = IF ~r.ok THEN "poll_offline"
               ELSE IF StillStale(St, r.body) THEN "poll_stale"
               ELSE "poll_revival"
  /\ UNCHANGED investigations

PollMediaFetched ==
  \E k \in DOMAIN ticks, r \in FetchResults : PollMediaFetchedWith(k, r)

Next ==
  \/ Start
  \/ RefreshClick
  \/ SwitchLineClick
  \/ Destroy
  \/ Playing
  \/ PlaySettled
  \/ FlvError
  \/ HlsError
  \/ ReconnectTimer
  \/ InvestigationFetched
  \/ InvestigationResumed
  \/ PollTick
  \/ PollHeadFetched
  \/ PollMasterFetched
  \/ PollMediaFetched

Spec == Init /\ [][Next]_vars

(***************************************************************************)
(* The unattended run: start() once, and then only the environment (the    *)
(* decoders, the video element, the timers and fetch()).                   *)
(***************************************************************************)
RecoveryInit == Constructed /\ recoveryRun = UnattendedRun /\ probe = NoProbe

StartOnce == lastOp = "constructor" /\ Start

RecoveryNext ==
  \/ StartOnce
  \/ Playing
  \/ PlaySettled
  \/ FlvError
  \/ HlsError
  \/ ReconnectTimer
  \/ InvestigationFetched
  \/ InvestigationResumed
  \/ PollTick
  \/ PollHeadFetched
  \/ PollMasterFetched
  \/ PollMediaFetched

RecoverySpec == RecoveryInit /\ [][RecoveryNext]_vars

(***************************************************************************)
(* The investigation lock: one installation with an FLV and an HLS line,   *)
(* the user switching between them, and the error signals, reconnects and  *)
(* fetches of the sessions; a second run of investigateHlsFailure may      *)
(* begin while the first is suspended.                                     *)
(***************************************************************************)
LockInit ==
  /\ Init
  /\ browser.flv /\ browser.hlsJs
  /\ streamUrlList = <<LineFlvWithFallback, LineHls>>

HlsErrorAgain ==
  \E data \in HlsErrors : HlsErrorWithin(data, MaxLockInvestigations)

LockNext ==
  \/ StartOnce
  \/ SwitchLineClick
  \/ FlvError
  \/ HlsErrorAgain
  \/ ReconnectTimer
  \/ InvestigationFetched
  \/ InvestigationResumed

LockSpec == LockInit /\ [][LockNext]_vars

(***************************************************************************)
(* normalizeM3u8Content on its own: two contents are given to it, as the   *)
(* investigation and the poller give it the two contents they compare, and *)
(* its results are given to it again.                                      *)
(***************************************************************************)
\* Two playlists of segment lines (P, Q) and their texts (p, q), or one free
\* text or null (p; q is null).
ProbeOf(P, Q, p, q) ==
  [stage |-> "input", P |-> P, Q |-> Q, p |-> p, q |-> q,
   np |-> NullText, nq |-> NullText, nnp |-> NullText, nnq |-> NullText]

NormalizeInit ==
  /\ Constructed
  /\ streamUrlList = <<>>
  /\ recoveryRun = NoRun
  /\ \/ \E P \in SegmentPlaylists, Q \in SegmentPlaylists :
          probe = ProbeOf(P, Q, Str(PlaylistText(P)), Str(PlaylistText(Q)))
     \/ \E text \in FreeTexts : probe = ProbeOf(<<>>, <<>>, Str(text), NullText)
     \/ probe = ProbeOf(<<>>, <<>>, NullText, NullText)

\* normalizeM3u8Content(p) and normalizeM3u8Content(q).
NormalizeContents ==
  /\ probe.stage = "input"
  /\ probe' = [probe EXCEPT !.stage = "normalized",
                            !.np = normalizeM3u8Content(probe.p),
                            !.nq = normalizeM3u8Content(probe.q)]
  /\ UNCHANGED componentVars

\* normalizeM3u8Content on its own results.
NormalizeAgain ==
  /\ probe.stage = "normalized"
  /\ probe' = [probe EXCEPT !.stage = "twice",
                            !.nnp = normalizeM3u8Content(probe.np),
                            !.nnq = normalizeM3u8Content(probe.nq)]
  /\ UNCHANGED componentVars

NormalizeNext == NormalizeContents \/ NormalizeAgain

NormalizeSpec == NormalizeInit /\ [][NormalizeNext]_vars

(***************************************************************************)
(* Properties.                                                             *)
(***************************************************************************)
\* The callbacks that are a direct user action ending in a setup.
UserSetupOps == {"start", "switchLine", "refresh"}

\* C1: a recovery-triggered setup (the reconnect timer of handleStreamError)
\* never changes userSelectedUrl, and userSelectedUrl changes only in start(),
\* switchLine() or a manual refresh.
C1_UserSelectedUrlChangesOnlyByUser ==
  [][ /\ lastOp' = "reconnect" => userSelectedUrl' = userSelectedUrl
      /\ userSelectedUrl' # userSelectedUrl => lastOp' \in UserSetupOps ]_vars

\* C2: userSelectedUrl is null or the primary url of a configured line, never
\* a fallback URL.
C2_UserSelectedUrlIsPrimary == userSelectedUrl \in PrimaryUrls \cup {Null}

\* C3: 0 <= recoveryAttempts <= maxRecoveryAttempts in every state, the values
\* the counter passes through inside a callback included.
C3_AttemptsWithinMax ==
  /\ recoveryAttempts \in 0..maxRecoveryAttempts
  /\ peakAttempts \in 0..maxRecoveryAttempts

\* C4: every 'playing' signal resets recoveryAttempts to 0, whichever engine
\* is active.
C4_PlayingResetsCounter ==
  lastOp \in {"playing", "playing_ignored"} => recoveryAttempts = 0

\* C5: start(), a switchLine() that performs a setup and a manual refresh each
\* begin the new session with recoveryAttempts = 0.
C5_UserSetupStartsClean == lastOp \in UserSetupOps => recoveryAttempts = 0

\* A manual refresh has run while the counter was not 0 (peakAttempts holds the
\* value the counter had when the handler began).
C5_Witness == lastOp = "refresh" /\ peakAttempts > 0 /\ recoveryAttempts = 0

\* The callbacks that call handleStreamError.
InvestigationFailedOps ==
  {"investigation_failed_stale", "investigation_failed_unreachable",
   "investigation_failed_mixed"}

HandleStreamErrorOps ==
  {"flvError_recoverable", "hlsError_fatal", "hlsError_stallNotReady"}
    \cup InvestigationFailedOps

\* No decoder is loading.
DecoderStopped == flvPlayer # "loaded" /\ hlsPlayer # "loading"

\* C6: handleStreamError increments recoveryAttempts; if the result is >=
\* maxRecoveryAttempts the decoder is stopped, the offline poller is started,
\* the counter is reset to 0 and no reconnect is scheduled; otherwise exactly
\* one reconnect is scheduled and the poller is not started.  The reconnect,
\* when it fires, sets up the current URL and leaves userSelectedUrl alone.
C6_HandleStreamError ==
  [][ /\ lastOp' \in HandleStreamErrorOps =>
           LET before == IF lastOp' \in InvestigationFailedOps
                         THEN maxRecoveryAttempts ELSE recoveryAttempts
           IN  /\ peakAttempts' = before + 1
               /\ IF before + 1 >= maxRecoveryAttempts
                  THEN /\ DecoderStopped'
                       /\ offlinePoller' /\ liveIntervals' = 1
                       /\ recoveryAttempts' = 0
                       /\ reconnectTimers' = reconnectTimers
                  ELSE /\ recoveryAttempts' = before + 1
                       /\ reconnectTimers' = reconnectTimers + 1
                       /\ offlinePoller' = offlinePoller
                       /\ liveIntervals' = liveIntervals
                       /\ UNCHANGED <<flvPlayer, hlsPlayer>>
      /\ lastOp' = "reconnect" =>
           /\ reconnectTimers' = reconnectTimers - 1
           /\ userSelectedUrl' = userSelectedUrl
           /\ currentUrl' = currentUrl ]_vars

\* The third consecutive failure of a session has taken it offline.
C6_Witness ==
  /\ lastOp = "flvError_recoverable"
  /\ peakAttempts = maxRecoveryAttempts
  /\ offlinePoller /\ recoveryAttempts = 0 /\ flvPlayer = "unloaded"

\* C7: whenever the offline poller is active - started by the recovery
\* threshold, by an investigation failure or by the 404 fast path -
\* recoveryAttempts is 0, and it stays 0 while the poller is active.
C7_OfflineResetsCounter == offlinePoller => recoveryAttempts = 0

\* The threshold has started the poller, from a counter that was not 0.
C7_Witness ==
  /\ offlinePoller /\ liveIntervals = 1
  /\ lastOp = "hlsError_fatal"
  /\ peakAttempts = maxRecoveryAttempts

\* The player has gone offline at once: the decoder is stopped, the poller is
\* started, the counter stays 0 and nothing was counted or scheduled.
WentOfflineAtOnce ==
  /\ DecoderStopped'
  /\ offlinePoller' /\ liveIntervals' = 1
  /\ recoveryAttempts' = 0 /\ peakAttempts' = 0
  /\ reconnectTimers' = reconnectTimers

\* The failure took the recoverable-failure path: handleStreamError counted it.
CountedAsFailure == peakAttempts' = recoveryAttempts + 1

\* The signal changed nothing.
Ignored ==
  /\ UNCHANGED <<sessionVars, investigations, ticks>>
  /\ peakAttempts' = recoveryAttempts

\* The not-found failures of the HLS decoder.
HlsNotFound == {d \in HlsErrors : d.details = "manifestLoadError" /\ d.code = 404}

\* C8 as stated: a not-found failure (FLV network error with code 404, HLS
\* manifest load error with code 404) takes the player offline at once when
\* recoveryAttempts = 0 and takes the recoverable-failure path when it is > 0.
C8_NotFoundAsStated ==
  [][ /\ FlvErrorWith("NetworkError", 404) =>
           IF recoveryAttempts = 0 THEN WentOfflineAtOnce ELSE CountedAsFailure
      /\ \A d \in HlsNotFound :
           HlsErrorWith(d) =>
             IF recoveryAttempts = 0 THEN WentOfflineAtOnce ELSE CountedAsFailure ]_vars

\* C8 (amended): a not-found failure takes the player offline at once when
\* recoveryAttempts = 0.  When it is > 0, an FLV 404 takes the
\* recoverable-failure path; an HLS 404 takes it only if the error is fatal and
\* no investigation is in progress, and is ignored otherwise.
C8_NotFoundFastPath ==
  [][ /\ FlvErrorWith("NetworkError", 404) =>
           IF recoveryAttempts = 0 THEN WentOfflineAtOnce ELSE CountedAsFailure
      /\ \A d \in HlsNotFound :
           HlsErrorWith(d) =>
             IF recoveryAttempts = 0 THEN WentOfflineAtOnce
             ELSE IF d.fatal /\ ~isObservingStall THEN CountedAsFailure
             ELSE Ignored ]_vars

\* A first-contact 404 of the HLS decoder has taken the player offline.
C8_Witness ==
  /\ lastOp = "hlsError_offline404"
  /\ hlsPlayer = "stopped" /\ offlinePoller
  /\ recoveryAttempts = 0 /\ reconnectTimers = 0

\* C9: while isObservingStall is true every error signal of the active decoder
\* is ignored: it changes no session state, schedules nothing and starts
\* neither the poller nor an investigation.
C9_ErrorsIgnoredWhileInvestigating ==
  [][ isObservingStall /\ (FlvError \/ HlsError) => Ignored ]_vars

\* C10: an investigation whose third check finds the playlist unchanged after
\* normalization (or unfetched) caches the last raw fetched content, forces
\* the counter to the maximum and declares offline once: one poller is
\* started and no reconnect is scheduled.
C10_InvestigationFailure ==
  [][ \A k \in DOMAIN investigations, r \in FetchResults :
        LET c == investigations[k]
        IN  ( /\ c.i = MAX_CHECKS
              /\ \/ ~r.ok
                 \/ normalizeM3u8Content(Str(r.body)) = normalizeM3u8Content(Str(c.last))
              /\ InvestigationFetchedWith(k, r) )
            => /\ lastKnownStaleContent' = Str(IF r.ok THEN r.body ELSE c.last)
               /\ peakAttempts' >= maxRecoveryAttempts
               /\ DecoderStopped'
               /\ offlinePoller' /\ liveIntervals' = 1
               /\ reconnectTimers' = reconnectTimers
               /\ recoveryAttempts' = 0
               /\ ~isObservingStall' ]_vars

\* Three fetches have succeeded with the same normalized content; the raw
\* content of the last one is cached and the poller runs.
C10_Witness ==
  /\ lastOp = "investigation_failed_stale"
  /\ lastKnownStaleContent = Str(PlaylistA2)
  /\ offlinePoller /\ liveIntervals = 1
  /\ recoveryAttempts = 0 /\ reconnectTimers = 0

\* The first two fetches of investigation k succeeded, and the response r to
\* the second differs from the first after normalization.
SecondFetchDiffers(k, r) ==
  LET c == investigations[k]
  IN  /\ c.phase = "fetch" /\ c.i = 2 /\ c.oks = 1
      /\ r.ok
      /\ normalizeM3u8Content(Str(r.body)) # normalizeM3u8Content(Str(c.last))

\* C11: when fetch #2 differs from fetch #1 after normalization the run ends
\* there (no third fetch) with recoveryAttempts = 0 and the lock released; it
\* schedules no reconnect and starts no poller.
C11_SecondFetchDiffersIsHealthy ==
  [][ \A k \in DOMAIN investigations, r \in FetchResults :
        SecondFetchDiffers(k, r) /\ InvestigationFetchedWith(k, r)
        => /\ recoveryAttempts' = 0 /\ peakAttempts' = recoveryAttempts
           /\ ~isObservingStall'
           /\ investigations' = RemoveAt(investigations, k)
           /\ reconnectTimers' = reconnectTimers
           /\ offlinePoller' = offlinePoller /\ liveIntervals' = liveIntervals
           /\ UNCHANGED <<flvPlayer, hlsPlayer, currentUrl, userSelectedUrl,
                          lastKnownStaleContent>> ]_vars

\* A run has ended healthy at its second check, in a session that goes on.
C11_Witness ==
  /\ lastOp = "investigation_healthy_check2"
  /\ investigations = <<>>
  /\ hlsPlayer = "loading" /\ ~isObservingStall /\ ~offlinePoller
  /\ recoveryAttempts = 0 /\ reconnectTimers = 0

\* How far a run has got: the fetch of check i, then the delay after it.
Position(c) == 2 * c.i + (IF c.phase = "delay" THEN 1 ELSE 0)

\* A run has returned, through its finally.
InvestigationExits ==
  \E k \in DOMAIN investigations : investigations' = RemoveAt(investigations, k)

\* A run has moved on to its next await.
InvestigationAdvances ==
  \E k \in DOMAIN investigations :
    /\ DOMAIN investigations' = DOMAIN investigations
    /\ \A j \in DOMAIN investigations \ {k} : investigations'[j] = investigations[j]
    /\ Position(investigations'[k]) > Position(investigations[k])

\* C12: a run performs at most MAX_CHECKS fetches - every step of a run
\* either ends it or moves it forward, and no run is ever past the fetch of
\* check MAX_CHECKS - and every exit (healthy, failure, cancellation, fetch
\* error, decoder not ready) leaves isObservingStall false.
C12_InvestigationEndsUnlocked ==
  /\ [](\A k \in DOMAIN investigations :
          /\ investigations[k].i \in 1..MAX_CHECKS
          /\ Position(investigations[k]) <= 2 * MAX_CHECKS)
  /\ [][ /\ investigations' # investigations =>
              \/ investigations' = Append(investigations, NewInvestigation)
              \/ InvestigationExits
              \/ InvestigationAdvances
         /\ InvestigationExits => ~isObservingStall'
         /\ lastOp' = "hlsError_stallNotReady" =>
              ~isObservingStall' /\ investigations' = investigations ]_vars

\* A run has ended on its third fetch error, and the lock is free.
C12_Witness ==
  /\ lastOp = "investigation_failed_unreachable"
  /\ investigations = <<>>
  /\ ~isObservingStall

\* The callbacks of a run of investigateHlsFailure after its first await.
InvestigationSteps ==
  {"investigation_continue", "investigation_next", "investigation_cancelled",
   "investigation_healthy_check2", "investigation_healthy_check3",
   "investigation_healthy_firstFetched", "investigation_failed_stale",
   "investigation_failed_unreachable", "investigation_failed_mixed"}

\* C13: once isObservingStall has been cleared from outside, a running
\* investigation applies no verdict, whichever await it is at: its later steps
\* change neither recoveryAttempts nor lastKnownStaleContent, do not call
\* handleStreamError and do not start the poller.
C13_CancelledInvestigationIsInert ==
  [][ ~isObservingStall /\ lastOp' \in InvestigationSteps
      => /\ recoveryAttempts' = recoveryAttempts /\ peakAttempts' = recoveryAttempts
         /\ lastKnownStaleContent' = lastKnownStaleContent
         /\ reconnectTimers' = reconnectTimers
         /\ offlinePoller' = offlinePoller /\ liveIntervals' = liveIntervals ]_vars

\* C14: a manual refresh during an investigation cancels it: the new session
\* starts with the lock released and recoveryAttempts = 0, and no later step
\* of the old investigation changes the new session.
C14_RefreshCancelsInvestigation ==
  /\ [](lastOp = "refresh" => ~isObservingStall /\ recoveryAttempts = 0)
  /\ [][ lastOp = "refresh" /\ lastOp' \in InvestigationSteps
         => UNCHANGED sessionVars ]_vars

\* The callbacks that run a setup, and destroy().
SetupOps == {"start", "switchLine", "refresh", "reconnect", "poll_revival"}

\* C15: destroy() and every setup cancel the pending reconnect timers: none is
\* pending afterwards, and none fires after destroy().
C15_TimersCancelled ==
  /\ [](lastOp \in SetupOps \cup {"destroy"} => reconnectTimers = 0)
  /\ [][ destroyed => lastOp' # "reconnect" ]_vars

\* The callbacks of a poll tick after an await.
PollResponses == {"poll_revival", "poll_offline", "poll_master", "poll_stale"}

\* C16: a poll tick whose response arrives after the poller was stopped is
\* discarded: it runs no setup and changes no session state.
C16_LateTickDiscarded ==
  [][ ~offlinePoller /\ lastOp' \in PollResponses => UNCHANGED sessionVars ]_vars

\* C17: at most one decoder engine instance (flvPlayer or hlsPlayer) exists.
C17_OneDecoderInstance == flvPlayer = "null" \/ hlsPlayer = "null"

\* A line switch has replaced the decoder of a session that had failed (its
\* reconnect is still pending) by a new hls.js instance.
C17_Witness ==
  /\ lastOp = "switchLine" /\ ~destroyed
  /\ browser.flv /\ reconnectTimers = 1
  /\ hlsPlayer = "loading" /\ flvPlayer = "null"

C19_InvestigationExcludesPoller == ~(isObservingStall /\ offlinePoller)

\* The revival test of C20 on the fetched media playlist.
RevivalFound(body) ==
  \/ lastKnownStaleContent = NullText
  \/ normalizeM3u8Content(Str(body)) # normalizeM3u8Content(lastKnownStaleContent)

\* The tick's setup for url (an HLS url) has run: the poller is stopped, the
\* cache is cleared and a new HLS session plays url, selected by the user.
HlsSetupRanFor(url) ==
  /\ lastOp' = "poll_revival"
  /\ lastKnownStaleContent' = NullText
  /\ ~offlinePoller' /\ liveIntervals' = 0
  /\ userSelectedUrl' = url /\ currentUrl' = url
  /\ currentPlayerType' = "hls" /\ hlsPlayer' = "loading" /\ flvPlayer' = "null"
  /\ recoveryAttempts' = recoveryAttempts

\* The tick has changed nothing.
TickChangedNothing == lastOp' = "poll_stale" /\ UNCHANGED sessionVars

\* C20 as stated: for an HLS userSelectedUrl, a tick that fetches the media
\* playlist declares revival iff nothing is cached or the content differs
\* after normalization; revival runs the setup for userSelectedUrl; identical
\* content changes nothing.
C20_PollRevivalForSelectedUrl ==
  [][ \A k \in DOMAIN ticks, r \in FetchResults :
        ( /\ EndsWith(userSelectedUrl, ".m3u8")
          /\ r.ok
          /\ PollMediaFetchedWith(k, r) )
        => IF RevivalFound(r.body) THEN HlsSetupRanFor(userSelectedUrl)
           ELSE TickChangedNothing ]_vars

\* The same statement for the ticks that still poll userSelectedUrl; it holds,
\* so the decision of the tick is as stated and only the tick that outlives a
\* line switch departs from it.
PollDecisionOfCurrentTick ==
  [][ \A k \in DOMAIN ticks, r \in FetchResults :
        ( /\ EndsWith(userSelectedUrl, ".m3u8")
          /\ ticks[k].masterUrl = userSelectedUrl
          /\ r.ok
          /\ PollMediaFetchedWith(k, r) )
        => IF RevivalFound(r.body) THEN HlsSetupRanFor(userSelectedUrl)
           ELSE TickChangedNothing ]_vars

\* The session fields after setupPlayer(url, 'offline-poll-success') run by a
\* tick that found a revival.
RevivalSetupRanFor(url) ==
  LET after == setupPlayer(clearOfflineState(St), url, <<"offline-poll-success">>)
  IN  /\ lastOp' = "poll_revival"
      /\ ~offlinePoller' /\ liveIntervals' = 0
      /\ userSelectedUrl' = url
      /\ currentUrl' = after.currentUrl
      /\ flvPlayer' = after.flvPlayer /\ hlsPlayer' = after.hlsPlayer
      /\ nativeSrc' = after.nativeSrc
      /\ currentPlayerType' = after.currentPlayerType

\* C21: a tick polls userSelectedUrl, never currentUrl; for a non-HLS
\* userSelectedUrl a successful response to the HEAD request stops the poller
\* and re-runs setup for userSelectedUrl, and an unsuccessful one changes
\* nothing and leaves the poller running.
C21_PollChecksSelectedUrl ==
  [][ /\ PollTick /\ Len(ticks') > Len(ticks) =>
           ticks'[Len(ticks')].masterUrl = userSelectedUrl
      /\ \A k \in DOMAIN ticks, ok \in BOOLEAN :
           ( /\ userSelectedUrl # Null /\ ~EndsWith(userSelectedUrl, ".m3u8")
             /\ PollHeadFetchedWith(k, ok) )
           => IF ok THEN RevivalSetupRanFor(userSelectedUrl)
              ELSE lastOp' = "poll_offline" /\ UNCHANGED sessionVars ]_vars

\* The same statement for the ticks that still poll userSelectedUrl; it holds.
HeadDecisionOfCurrentTick ==
  [][ \A k \in DOMAIN ticks, ok \in BOOLEAN :
        ( /\ ticks[k].masterUrl = userSelectedUrl
          /\ PollHeadFetchedWith(k, ok) )
        => IF ok THEN RevivalSetupRanFor(userSelectedUrl)
           ELSE lastOp' = "poll_offline" /\ UNCHANGED sessionVars ]_vars

\* A tick's fetch has failed or its response is not ok.
PollFetchFails ==
  \E k \in DOMAIN ticks :
    \/ PollHeadFetchedWith(k, FALSE)
    \/ \E master \in MasterPlaylists : PollMasterFetchedWith(k, FALSE, master)
    \/ \E r \in FetchResults : ~r.ok /\ PollMediaFetchedWith(k, r)

\* C22: a fetch failure or a response that is not ok during a poll tick is
\* swallowed: the tick ends, no session field changes (recoveryAttempts,
\* lastKnownStaleContent, userSelectedUrl, currentUrl, the decoders), no setup
\* runs and the poller is left as it was.
C22_PollFailureSwallowed ==
  [][ PollFetchFails
      => /\ UNCHANGED sessionVars
         /\ peakAttempts' = recoveryAttempts
         /\ Len(ticks') = Len(ticks) - 1
         /\ investigations' = investigations ]_vars

\* A fetch of a tick has failed while a stale playlist is cached, and the
\* poller is still running.
C22_Witness ==
  /\ lastOp = "poll_offline"
  /\ offlinePoller /\ liveIntervals = 1
  /\ lastKnownStaleContent = Str(PlaylistB)
  /\ ticks = <<>>

\* C23: lastKnownStaleContent is null right after every setup (a revival found
\* by the poller included), and only an investigation failure makes it
\* non-null: it is non-null only between such a failure and the next setup.
C23_StaleContentLifetime ==
  /\ [](lastOp \in SetupOps => lastKnownStaleContent = NullText)
  /\ [][ lastKnownStaleContent' # NullText /\ lastKnownStaleContent' # lastKnownStaleContent
         => lastOp' \in InvestigationFailedOps ]_vars

\* Between an investigation failure and the next setup: the cache holds the
\* stale playlist, the decoder is stopped, and a tick has just found the
\* playlist unchanged.
C23_Witness ==
  /\ lastOp = "poll_stale"
  /\ lastKnownStaleContent = Str(PlaylistA2)
  /\ hlsPlayer = "stopped" /\ offlinePoller

\* The URL setupPlayer(targetUrl) plays: the line's fallback when the target is
\* FLV and flv.js is unsupported.
UrlToPlay(targetUrl) ==
  IF EndsWith(targetUrl, ".flv") /\ ~browser.flv
  THEN streamUrlList[FindLine(targetUrl)].fallback
  ELSE targetUrl

\* setupPlayer(targetUrl) is a setup error: the target is invalid, it is an
\* FLV line that cannot be played and has no fallback, or the format of the
\* URL to play is unsupported.
SetupFails(targetUrl) ==
  \/ targetUrl = Null
  \/ /\ EndsWith(targetUrl, ".flv") /\ ~browser.flv
     /\ (FindLine(targetUrl) = 0 \/ streamUrlList[FindLine(targetUrl)].fallback = Null)
  \/ /\ ~(EndsWith(targetUrl, ".flv") /\ ~browser.flv)
     /\ ~EndsWith(targetUrl, ".m3u8") /\ ~EndsWith(targetUrl, ".flv")

\* A user action has ended in a setup error.
SetupErrorStep ==
  \/ Start /\ (Len(streamUrlList) = 0 \/ SetupFails(streamUrlList[1].url))
  \/ RefreshClick /\ SetupFails(currentUrl)
  \/ \E n \in DOMAIN streamUrlList :
       /\ SwitchLineWith(n)
       /\ ~SwitchLineReturnsEarly(St, n)
       /\ SetupFails(streamUrlList[n].url)

\* Nothing retries: no reconnect is scheduled, no poller and no investigation
\* is started.
NothingRetries ==
  /\ reconnectTimers' = reconnectTimers
  /\ ~offlinePoller' /\ liveIntervals' = 0
  /\ investigations' = investigations
  /\ isObservingStall' = isObservingStall

\* C24: a setup error is not retried - it schedules no reconnect and starts no
\* poller or investigation - and leaves no decoder engine loading.
C24_SetupErrorNotRetried ==
  [][ SetupErrorStep => NothingRetries /\ DecoderStopped' /\ ~nativeSrc' ]_vars

\* The first half alone; it holds.
SetupErrorSchedulesNothing == [][ SetupErrorStep => NothingRetries ]_vars

\* currentUrl is the primary url of a line that has a fallback.
PlaysPrimaryWithFallback ==
  \E n \in DOMAIN streamUrlList :
    streamUrlList[n].url = currentUrl /\ streamUrlList[n].fallback # Null

\* C25: when the primary stream of a line with a fallback fails, the player
\* attempts the fallback: recoverable failures of the primary never end in the
\* offline state with the primary still the current URL.
C25_FallbackOnPrimaryFailure ==
  ~(lastOp = "flvError_recoverable" /\ offlinePoller /\ PlaysPrimaryWithFallback)


\* C26 as stated: in a run of start() and of no other user action, at most
\* maxRecoveryAttempts - 1 recovery-triggered setups happen before offline is
\* declared.
C26_BoundedReconnection ==
  recoveryRun.phase # "off" => recoveryRun.setups <= maxRecoveryAttempts - 1

\* C26, amended: in a run of start() and of no other user action in which the
\* counter is never reset on resumed playback (a 'playing' event of an FLV
\* session, a healthy verdict of an investigation), at most
\* maxRecoveryAttempts - 1 recovery-triggered setups happen before offline is
\* declared, and the recoverable failure that follows the last of them
\* declares offline.
C26_BoundedConsecutiveReconnection ==
  /\ []( (recoveryRun.phase # "off" /\ ~recoveryRun.resumed)
           => recoveryRun.setups <= maxRecoveryAttempts - 1 )
  /\ [][ ( /\ recoveryRun.phase = "counting" /\ ~recoveryRun.resumed
           /\ recoveryRun.setups = maxRecoveryAttempts - 1
           /\ lastOp' \in HandleStreamErrorOps )
         => recoveryRun'.phase = "offline" /\ offlinePoller' ]_vars

\* Offline has been declared after maxRecoveryAttempts - 1 reconnections, none
\* of which resumed playback.
C26_Witness ==
  /\ recoveryRun = [phase |-> "offline", setups |-> maxRecoveryAttempts - 1,
                    resumed |-> FALSE]
  /\ lastOp \in HandleStreamErrorOps
  /\ offlinePoller

\* A tick has fetched the media playlist and found it changed: other than the
\* cached content, after normalization.
MediaPlaylistChanged ==
  \E k \in DOMAIN ticks, r \in FetchResults :
    /\ r.ok
    /\ normalizeM3u8Content(Str(r.body)) # normalizeM3u8Content(lastKnownStaleContent)
    /\ PollMediaFetchedWith(k, r)

\* C27: after a failed investigation has declared an HLS session offline
\* (selected directly or reached through fallback substitution) and cached its
\* playlist, the poller re-runs setup only when it has fetched a media
\* playlist that differs from the cached one: as long as the playlist stays
\* unchanged, no revival happens.
C27_StaleCacheBreaksLoop ==
  [][ (Truthy(lastKnownStaleContent) /\ lastOp' = "poll_revival")
      => MediaPlaylistChanged ]_vars

\* The same statement for a session whose userSelectedUrl is the HLS url
\* itself; it holds, so C27 fails only under fallback substitution, where the
\* poller checks the FLV url by a HEAD request and never reads the cache.
StaleCacheBreaksLoopForSelectedHls ==
  [][ ( /\ Truthy(lastKnownStaleContent)
        /\ EndsWith(userSelectedUrl, ".m3u8")
        /\ lastOp' = "poll_revival" )
      => MediaPlaylistChanged ]_vars

\* C28: normalizeM3u8Content is idempotent: on its own result it returns that
\* result, for every playlist text (and for null).
C28_NormalizeIdempotent ==
  probe.stage = "twice" => probe.nnp = probe.np /\ probe.nnq = probe.nq

\* A text that normalizeM3u8Content changed, and did not change again.
C28_Witness ==
  /\ probe.stage = "twice"
  /\ Truthy(probe.np) /\ probe.np # probe.p
  /\ probe.nnp = probe.np

\* The two playlists of the probe have been normalized.
ProbeNormalized == probe.stage \in {"normalized", "twice"} /\ probe.P # <<>>

\* Playlists with the same segment paths, line by line: they differ in the
\* query strings of their segment URIs at most.
SamePaths(P, Q) ==
  /\ Len(P) = Len(Q)
  /\ \A k \in DOMAIN P : SegmentPath(P[k]) = SegmentPath(Q[k])

\* The query strings differ on segments with the extension .ts only.
QueriesDifferOnTsOnly(P, Q) ==
  \A k \in DOMAIN P : P[k].query # Q[k].query => P[k].ext = <<".", "t", "s">>

C30_DifferentPathsStayDifferent ==
  (ProbeNormalized /\ ~SamePaths(probe.P, probe.Q)) => probe.np # probe.nq

\* Two playlists whose .ts segments have different paths and one query string
\* have been normalized: the query is gone and the texts still differ.
C30_Witness ==
  /\ probe.stage = "normalized"
  /\ Len(probe.P) = Len(probe.Q)
  /\ \E k \in DOMAIN probe.P :
       /\ probe.P[k].stem # probe.Q[k].stem
       /\ probe.P[k].ext = <<".", "t", "s">> /\ probe.Q[k].ext = <<".", "t", "s">>
       /\ probe.P[k].query = probe.Q[k].query /\ probe.P[k].query # <<>>
  /\ probe.np # probe.p
  /\ probe.np # probe.nq

\* The playlist P with the query strings of its segment URIs removed.
WithoutQueries(P) == [k \in DOMAIN P |-> [P[k] EXCEPT !.query = <<>>]]

\* The text holds no query string at all.
HasNoQuery(text) == \A k \in DOMAIN text : text[k] # "?"

\* The content p of the probe has been normalized.
ContentNormalized == probe.stage \in {"normalized", "twice"}

\* Every segment of the playlist has the extension .ts.
AllTs(P) == \A k \in DOMAIN P : P[k].ext = <<".", "t", "s">>

\* C31: normalizeM3u8Content returns null for null and, for every other text
\* (the empty string and texts without a query string included), a string:
\* the input without the query strings of its segment references, and
\* otherwise unchanged.  Segment references are read as the function's
\* comment reads them, as .ts segment URLs (C29).
C31_NormalizeContract ==
  ContentNormalized =>
    /\ probe.p = NullText => probe.np = NullText
    /\ probe.p # NullText =>
         /\ probe.np # NullText
         /\ (probe.P # <<>> /\ AllTs(probe.P))
              => probe.np = Str(PlaylistText(WithoutQueries(probe.P)))
         /\ HasNoQuery(probe.p.text) => probe.np = probe.p

\* The same statement without the empty string; it holds, so C31 fails on
\* the empty string alone, for which null is returned.
NormalizeContractForNonEmpty ==
  ContentNormalized =>
    /\ probe.p = NullText => probe.np = NullText
    /\ Truthy(probe.p) =>
         /\ probe.np # NullText
         /\ (probe.P # <<>> /\ AllTs(probe.P))
              => probe.np = Str(PlaylistText(WithoutQueries(probe.P)))
         /\ HasNoQuery(probe.p.text) => probe.np = probe.p

\* The listener took the lock and started one run of investigateHlsFailure,
\* which waits for its first fetch; the counter is as it was.
InvestigationStarted ==
  /\ isObservingStall'
  /\ investigations' = Append(investigations, NewInvestigation)
  /\ recoveryAttempts' = recoveryAttempts /\ peakAttempts' = recoveryAttempts

\* C32 as stated: with no investigation in progress, a fatal HLS error is
\* counted by handleStreamError as one recoverable failure, and a non-fatal
\* buffer stall takes the lock and starts exactly one investigation without
\* changing recoveryAttempts.
C32_FatalCountedStallInvestigated ==
  [][ \A d \in HlsErrors :
        (~isObservingStall /\ HlsErrorWith(d))
        => IF d.fatal THEN CountedAsFailure
           ELSE d.details = "bufferStalledError" => InvestigationStarted ]_vars

\* C32, amended: with no investigation in progress, a fatal HLS error other
\* than a manifest 404 of the first attempt is counted by handleStreamError
\* as one recoverable failure, and a non-fatal buffer stall reported while
\* the active level of the decoder is ready takes the lock and starts exactly
\* one investigation without changing recoveryAttempts.
C32_FatalCountedStallInvestigatedByPriority ==
  [][ \A d \in HlsErrors :
        ( /\ ~isObservingStall
          /\ ~(d \in HlsNotFound /\ recoveryAttempts = 0)
          /\ HlsErrorWith(d) )
        => IF d.fatal THEN CountedAsFailure
           ELSE (d.details = "bufferStalledError" /\ d.levelReady)
                  => InvestigationStarted ]_vars

\* A buffer stall has started an investigation in a session whose counter a
\* fatal error had taken to 1.
C32_Witness ==
  /\ lastOp = "hlsError_stall"
  /\ isObservingStall /\ investigations = <<NewInvestigation>>
  /\ recoveryAttempts = 1 /\ peakAttempts = 1
  /\ hlsPlayer = "loading"

\* The HLS errors that are neither fatal nor a buffer stall.
HlsMinorErrors == {d \in HlsErrors : ~d.fatal /\ d.details # "bufferStalledError"}

\* C33: an ignorable error signal - an HLS error that is neither fatal, nor a
\* buffer stall, nor a first-attempt 404, or an FLV error that is not a
\* network error - changes nothing: the counter, the lock, the cache, the
\* URLs, the decoders, the pending timers, the poller, the investigations and
\* the ticks are as they were.
C33_IgnorableChangesNothing ==
  [][ /\ \A d \in HlsMinorErrors :
           (~(d \in HlsNotFound /\ recoveryAttempts = 0) /\ HlsErrorWith(d)) => Ignored
      /\ \A errorType \in FlvErrorTypes \ {"NetworkError"}, httpStatus \in HttpStatuses :
           FlvErrorWith(errorType, httpStatus) => Ignored ]_vars

\* A minor HLS error has been ignored in a session with a counted failure
\* and a pending reconnect.
C33_Witness ==
  /\ lastOp = "hlsError_minor"
  /\ hlsPlayer = "loading"
  /\ recoveryAttempts = 1 /\ reconnectTimers = 1
  /\ ~isObservingStall /\ ~offlinePoller

\* The steps in which a run declares the stream healthy.
HealthyVerdictOps ==
  {"investigation_healthy_check2", "investigation_healthy_check3",
   "investigation_healthy_firstFetched"}

\* C34: a run declares the stream healthy only on a successful fetch whose
\* playlist differs, after normalization, from a playlist the run fetched
\* successfully before; a failed fetch is not content that differs.
C34_HealthyNeedsTwoFetchedPlaylists ==
  [][ \A k \in DOMAIN investigations, r \in FetchResults :
        (InvestigationFetchedWith(k, r) /\ lastOp' \in HealthyVerdictOps)
        => /\ r.ok
           /\ investigations[k].oks >= 1
           /\ normalizeM3u8Content(Str(r.body))
                # normalizeM3u8Content(Str(investigations[k].last)) ]_vars

\* The same statement for the runs that have fetched a playlist before; it
\* holds: C34 fails only where the comparison is with the initial '' of
\* lastFetchedRawContent.
HealthyAfterAFetchedPlaylist ==
  [][ \A k \in DOMAIN investigations, r \in FetchResults :
        ( /\ InvestigationFetchedWith(k, r)
          /\ lastOp' \in HealthyVerdictOps
          /\ investigations[k].oks >= 1 )
        => /\ r.ok
           /\ normalizeM3u8Content(Str(r.body))
                # normalizeM3u8Content(Str(investigations[k].last)) ]_vars

\* C35: from the declaration of offline until a revival or a user action
\* (while the poller is active), no reconnect timer of handleStreamError
\* fires: no recovery-triggered setup runs and none stops the poller.
C35_OfflineCancelsReconnects ==
  [][ offlinePoller => ~ReconnectTimer ]_vars

\* C36: at most one run of investigateHlsFailure is in progress at any time,
\* isObservingStall is true exactly while one is, and a stall signal that
\* arrives while the lock is held starts no second run.  (With one run at
\* most, and the lock held exactly during it, no run can resume under the
\* lock of a later run or release it.)
C36_OneInvestigationUnderLock ==
  /\ [](Len(investigations) <= 1)
  /\ [](isObservingStall <=> investigations # <<>>)
  /\ [][ (isObservingStall /\ HlsErrorAgain) => investigations' = investigations ]_vars

\* The first part of C36 alone: two runs are never in progress at once.
OneInvestigationAtATime == Len(investigations) <= 1

\* The last part of C36: a run that returns releases no lock while a later run
\* is in progress.
EndingRunKeepsLaterLock ==
  [][ (InvestigationExits /\ Len(investigations) > 1) => isObservingStall' ]_vars

\* The third part of C36 alone; it holds: under the lock the listener
\* returns before it reads the kind of the error.
StallUnderLockStartsNothing ==
  [][ (isObservingStall /\ HlsErrorAgain) => investigations' = investigations ]_vars



\* The buffer stalls whose investigation cannot start: the decoder or its
\* active level is not ready.
HlsStallsNotReady ==
  {d \in HlsErrors : ~d.fatal /\ d.details = "bufferStalledError" /\ ~d.levelReady}

\* C37: when an investigation cannot start because the HLS decoder or its
\* active level is not ready, no fetch is made (no run is left suspended),
\* handleStreamError counts exactly one recoverable failure - a reconnect is
\* scheduled below the threshold, the player goes offline at it -,
\* lastKnownStaleContent is unchanged and the lock is released.
C37_SetupFailureCountedOnce ==
  [][ \A d \in HlsStallsNotReady :
        (~isObservingStall /\ HlsErrorWith(d))
        => /\ investigations' = investigations
           /\ CountedAsFailure
           /\ IF recoveryAttempts + 1 >= maxRecoveryAttempts
              THEN /\ DecoderStopped'
                   /\ offlinePoller' /\ liveIntervals' = 1
                   /\ recoveryAttempts' = 0
                   /\ reconnectTimers' = reconnectTimers
              ELSE /\ recoveryAttempts' = recoveryAttempts + 1
                   /\ reconnectTimers' = reconnectTimers + 1
                   /\ offlinePoller' = offlinePoller
                   /\ UNCHANGED <<flvPlayer, hlsPlayer>>
           /\ lastKnownStaleContent' = lastKnownStaleContent
           /\ ~isObservingStall' ]_vars

\* An investigation that could not start was counted as the second failure
\* of a session: a reconnect is pending, no run is suspended and the lock is
\* free.
C37_Witness ==
  /\ lastOp = "hlsError_stallNotReady"
  /\ recoveryAttempts = 2 /\ peakAttempts = 2
  /\ reconnectTimers = 1
  /\ ~isObservingStall /\ investigations = <<>>

\* destroy() has just returned with the decoders gone, the poller stopped, the
\* lock free and the counter at 0.
DestroyedSessionReset ==
  /\ flvPlayer = "null" /\ hlsPlayer = "null"
  /\ ~offlinePoller
  /\ ~isObservingStall
  /\ recoveryAttempts = 0

DestroyResetsAllButCache == lastOp = "destroy" => DestroyedSessionReset

====
